---- MODULE Spec2Model ----
(***************************************************************************)
(* Input-device processing core of lv_core/lv_indev.c: the periodic task   *)
(* indev_proc_task, the pointer, keypad, encoder and button-array          *)
(* processing, the press and release paths, drag, drag throw and the reset *)
(* query.                                                                  *)
(***************************************************************************)
EXTENDS Integers, Sequences, FiniteSets, TLC

VARIABLES indev, coords, tick, indev_act, pc, log, data, path, hist, trace,
          group, conf

vars == <<indev, coords, tick, indev_act, pc, log, data, path, hist, trace,
          group, conf>>

(***************************************************************************)
(* Bounds of the model.                                                    *)
(***************************************************************************)
\* lv_tick_get() is not advanced beyond this value
MaxTick == 1500

\* the longest sample sequence that is followed from lv_indev_init on
MaxTrace == 5

\* the largest |enc_diff| an encoder reports in one sample
MaxDiff == 2

\* the largest |drag_throw_vect.y| a throw starts with
MaxVect == 3

(***************************************************************************)
(* Configuration (lv_conf.h) and enumerations used by lv_indev.c.          *)
(***************************************************************************)
LV_INDEV_LONG_PRESS_TIME == 400
LV_INDEV_LONG_PRESS_REP_TIME == 100
LV_INDEV_DRAG_LIMIT == 2
LV_INDEV_DRAG_THROW == 10

NULL == "none"
LV_INDEV_STATE_PR == "PR"
LV_INDEV_STATE_REL == "REL"
LV_INDEV_TYPE_POINTER == "POINTER"
LV_INDEV_TYPE_BUTTON == "BUTTON"
LV_INDEV_TYPE_KEYPAD == "KEYPAD"
LV_INDEV_TYPE_ENCODER == "ENCODER"

LV_GROUP_KEY_ENTER == "ENTER"
LV_GROUP_KEY_NEXT == "NEXT"
LV_GROUP_KEY_PREV == "PREV"
LV_GROUP_KEY_LEFT == "LEFT"
LV_GROUP_KEY_RIGHT == "RIGHT"

Pt(px, py) == [x |-> px, y |-> py]

Abs(n) == IF n < 0 THEN -n ELSE n

\* C integer division truncates toward zero
TruncDiv(a, b) == IF a >= 0 THEN a \div b ELSE -((-a) \div b)

\* x >> 3 on a signed coordinate (arithmetic shift)
Shr3(n) == n \div 8

\* the amounts by which the tick interrupt is seen to advance between steps
TickSteps == {500}

\* the build, the platform and the observer: LV_INDEV_DRAG_THROW of
\* lv_conf.h, the steps of the tick interrupt and the sample sequences that
\* are followed from lv_indev_init on
NewConf(throw, steps, scripts) ==
    [drag_throw |-> throw, tick_steps |-> steps, scripts |-> scripts]

DefaultConf == NewConf(LV_INDEV_DRAG_THROW, TickSteps, {})

lv_tick_elaps(prev_tick) == tick - prev_tick

(***************************************************************************)
(* The scene: the widget tree the hit test walks.  "sys" and "top" are the *)
(* two display layers, "scr" the active screen.  A is a clickable widget   *)
(* protected against press-lost; B is a draggable widget with drag throw   *)
(* that its parent lets move down by 2, and when it has moved it covers    *)
(* the point (0,6).  The widgets lie in one column, x = 0.                 *)
(***************************************************************************)
Widgets == {"sys", "top", "scr", "A", "B"}

child_ll == [w \in Widgets |-> IF w = "scr" THEN <<"A", "B">> ELSE <<>>]

lv_obj_get_parent(w) == IF w \in {"A", "B"} THEN "scr" ELSE NULL

lv_obj_get_click(w) == w \in {"A", "B"}

lv_obj_get_hidden(w) == FALSE

lv_obj_get_drag(w) == w = "B"

lv_obj_get_drag_throw(w) == w = "B"

lv_obj_get_drag_parent(w) == FALSE

\* lv_obj_is_protected(w, LV_PROTECT_PRESS_LOST)
lv_obj_is_protected(w) == w = "A"

\* width and height of a widget
obj_size == [w \in Widgets |->
               CASE w = "A" -> Pt(1, 2)
                 [] w = "B" -> Pt(1, 3)
                 [] OTHER   -> Pt(10, 10)]

\* the positions lv_obj_set_pos can give a widget (its parent clips the rest)
obj_range == [w \in Widgets |->
               CASE w = "A" -> [x1 |-> 0, x2 |-> 0, y1 |-> 0, y2 |-> 0]
                 [] w = "B" -> [x1 |-> 0, x2 |-> 0, y1 |-> 2, y2 |-> 4]
                 [] OTHER   -> [x1 |-> 0, x2 |-> 0, y1 |-> 0, y2 |-> 0]]

InitCoords == [w \in Widgets |->
               CASE w = "B" -> Pt(0, 2)
                 [] OTHER   -> Pt(0, 0)]

Clamp(v, lo, hi) == IF v < lo THEN lo ELSE IF v > hi THEN hi ELSE v

lv_obj_set_pos(co, w, nx, ny) ==
    [co EXCEPT ![w] = Pt(Clamp(nx, obj_range[w].x1, obj_range[w].x2),
                         Clamp(ny, obj_range[w].y1, obj_range[w].y2))]

lv_area_is_point_on(co, w, p) ==
    /\ p.x >= co[w].x /\ p.x <= co[w].x + obj_size[w].x - 1
    /\ p.y >= co[w].y /\ p.y <= co[w].y + obj_size[w].y - 1

(***************************************************************************)
(* indev_search_obj: the topmost clickable, non-hidden widget on act_point,*)
(* children first, in child-list order.                                    *)
(***************************************************************************)
RECURSIVE HiddenChain(_)
HiddenChain(w) ==
    IF w = NULL THEN FALSE
    ELSE IF lv_obj_get_hidden(w) THEN TRUE
    ELSE HiddenChain(lv_obj_get_parent(w))

RECURSIVE indev_search_obj(_, _, _)
RECURSIVE SearchChildren(_, _, _, _)
SearchChildren(co, p, kids, k) ==
    IF k > Len(kids) THEN NULL
    ELSE LET f == indev_search_obj(co, p, kids[k])
         IN  IF f # NULL THEN f ELSE SearchChildren(co, p, kids, k + 1)

indev_search_obj(co, p, obj) ==
    IF lv_area_is_point_on(co, obj, p)
    THEN LET found_p == SearchChildren(co, p, child_ll[obj], 1)
         IN  IF found_p = NULL /\ lv_obj_get_click(obj) /\ ~HiddenChain(obj)
             THEN obj ELSE found_p
    ELSE NULL

\* the three roots searched by indev_proc_press, in order
SearchLayers(co, p) ==
    LET a == indev_search_obj(co, p, "sys")
        b == indev_search_obj(co, p, "top")
    IN  IF a # NULL THEN a
        ELSE IF b # NULL THEN b
        ELSE indev_search_obj(co, p, "scr")

(***************************************************************************)
(* A device record: lv_indev_t with its lv_indev_proc_t.                   *)
(***************************************************************************)
NewIndev(t, pts, drv) ==
    [type |-> t, btn_points |-> pts, driver |-> drv, disabled |-> FALSE,
     group |-> IF t \in {LV_INDEV_TYPE_KEYPAD, LV_INDEV_TYPE_ENCODER}
               THEN "group" ELSE NULL,
     last_state |-> LV_INDEV_STATE_REL, last_key |-> NULL,
     state |-> LV_INDEV_STATE_REL, reset_query |-> FALSE,
     pr_timestamp |-> 0, longpr_rep_timestamp |-> 0, long_pr_sent |-> FALSE,
     act_point |-> Pt(0, 0), last_point |-> Pt(0, 0), vect |-> Pt(0, 0),
     drag_sum |-> Pt(0, 0), drag_throw_vect |-> Pt(0, 0),
     act_obj |-> NULL, last_obj |-> NULL,
     drag_limit_out |-> FALSE, drag_in_prog |-> FALSE,
     wait_unil_release |-> FALSE]

(***************************************************************************)
(* Public operations on one device record.                                 *)
(***************************************************************************)
\* C10 mutant: the reset toggles the query
lv_indev_reset_toggle(p) == [p EXCEPT !.reset_query = ~@]

lv_indev_reset_one(p) == [p EXCEPT !.reset_query = TRUE]

lv_indev_reset_lpr(p) ==
    [p EXCEPT !.long_pr_sent = FALSE,
              !.longpr_rep_timestamp = tick,
              !.pr_timestamp = tick]

lv_indev_wait_release(p) == [p EXCEPT !.wait_unil_release = TRUE]

\* C5 mutant: the handler forgets last_obj
indev_proc_reset_query_handler_keep(p) ==
    IF p.reset_query
    THEN [p EXCEPT !.act_obj = NULL,
                   !.drag_limit_out = FALSE, !.drag_in_prog = FALSE,
                   !.long_pr_sent = FALSE, !.pr_timestamp = 0,
                   !.longpr_rep_timestamp = 0,
                   !.drag_sum = Pt(0, 0), !.drag_throw_vect = Pt(0, 0),
                   !.reset_query = FALSE]
    ELSE p

\* C19 mutant: the handler leaves the drag in progress
indev_proc_reset_query_handler_dragging(p) ==
    IF p.reset_query
    THEN [p EXCEPT !.act_obj = NULL, !.last_obj = NULL,
                   !.drag_limit_out = FALSE,
                   !.long_pr_sent = FALSE, !.pr_timestamp = 0,
                   !.longpr_rep_timestamp = 0,
                   !.drag_sum = Pt(0, 0), !.drag_throw_vect = Pt(0, 0),
                   !.reset_query = FALSE]
    ELSE p

indev_proc_reset_query_handler(p) ==
    IF p.reset_query
    THEN [p EXCEPT !.act_obj = NULL, !.last_obj = NULL,
                   !.drag_limit_out = FALSE, !.drag_in_prog = FALSE,
                   !.long_pr_sent = FALSE, !.pr_timestamp = 0,
                   !.longpr_rep_timestamp = 0,
                   !.drag_sum = Pt(0, 0), !.drag_throw_vect = Pt(0, 0),
                   !.reset_query = FALSE]
    ELSE p

(***************************************************************************)
(* Observation of the emitted signals and events.  g is the history of one *)
(* device as an observer of its widgets sees it:                           *)
(*   open  the widget that got "pressed" and no "released"/"press-lost"    *)
(*   lp    a long press was emitted since the last "pressed"               *)
(*   lpl   ... and lv_indev_reset_lpr was not called since                 *)
(*   drag  drag_in_prog was seen true since the last "pressed"             *)
(*   dbeg  a "drag-begin" was emitted and no "drag-end" since              *)
(*   lpt   tick of the last long press (repeat) since "pressed", or -1     *)
(*   rep   a long press repeat was emitted since the last "pressed"        *)
(*   rw    reset or wait-release was pending at the last "pressed" or was  *)
(*         called since                                                    *)
(*   lost  in the last step a press ended with act_obj = NULL and neither  *)
(*         "released" nor "press-lost": "call" after a reset or a          *)
(*         wait-release, "silent" without one, "none" if it did not happen *)
(***************************************************************************)
NewHist ==
    [open |-> NULL, lp |-> FALSE, lpl |-> FALSE, drag |-> FALSE,
     dbeg |-> FALSE, lpt |-> -1, rep |-> FALSE, rw |-> FALSE, lost |-> "none"]

\* the history when a step begins
HistBegin(g) == [g EXCEPT !.lost = "none"]

\* the history after the emission of signal `kind` to obj
HistEmit(g, p, ch, kind, obj) ==
    LET g1 == [g EXCEPT !.drag = @ \/ p.drag_in_prog]
    IN  IF ch # "signal" THEN g1
        ELSE CASE kind = "PRESSED" ->
                    [g1 EXCEPT !.open = obj, !.lp = FALSE, !.lpl = FALSE,
                               !.drag = FALSE, !.lpt = -1, !.rep = FALSE,
                               !.rw = p.reset_query \/ p.wait_unil_release]
               [] kind \in {"RELEASED", "PRESS_LOST"} ->
                    [g1 EXCEPT !.open = IF @ = obj THEN NULL ELSE @]
               [] kind = "LONG_PRESS" ->
                    [g1 EXCEPT !.lp = TRUE, !.lpl = TRUE, !.lpt = tick]
               [] kind = "LONG_PRESS_REP" ->
                    [g1 EXCEPT !.lpt = tick, !.rep = TRUE]
               [] kind = "DRAG_BEGIN" -> [g1 EXCEPT !.dbeg = TRUE]
               [] kind = "DRAG_END" -> [g1 EXCEPT !.dbeg = FALSE]
               [] OTHER -> g1

\* the history after a call of the public operation `do`
HistCall(g, do) ==
    CASE do \in {"reset", "wait_release"} -> [g EXCEPT !.rw = TRUE]
      [] do = "reset_lpr" -> [g EXCEPT !.lpl = FALSE]
      [] OTHER -> g

\* the history once the code of a step has run: a press whose widget is no
\* longer act_obj has ended, and a drag-begin counts for the drag in
\* progress only
HistEnd(g, p) ==
    LET cut == p.act_obj = NULL /\ g.open # NULL
        g1  == IF cut
               THEN [g EXCEPT !.open = NULL,
                              !.lost = IF g.rw THEN "call" ELSE "silent"]
               ELSE g
        g2  == [g1 EXCEPT !.dbeg = @ /\ p.drag_in_prog]
    IN  IF g2.open = NULL
        THEN [g2 EXCEPT !.lp = FALSE, !.lpl = FALSE, !.drag = FALSE,
                        !.lpt = -1, !.rep = FALSE, !.rw = FALSE]
        ELSE [g2 EXCEPT !.drag = @ \/ p.drag_in_prog]

(***************************************************************************)
(* Widget callbacks.  A machine state m = [p, co, log, g, path, grp] is    *)
(* threaded through the code of one sample: p the device record, co the    *)
(* widget positions, log the signals and events sent so far, path the      *)
(* path the sample took, grp the focus group.  cb is the behaviour of the  *)
(* callbacks during this sample: on the emission cb.on they call the       *)
(* public operation cb.do on the active device.                            *)
(***************************************************************************)
NoCb == [on |-> <<"none", "none">>, do |-> "none"]

HalRead == <<"hal", "read">>

CbActs == {"reset", "wait_release", "reset_lpr"}

ApplyCb(p, do) ==
    CASE do = "reset"        -> lv_indev_reset_one(p)
      [] do = "wait_release" -> lv_indev_wait_release(p)
      [] do = "reset_lpr"    -> lv_indev_reset_lpr(p)
      [] OTHER               -> p

\* one call of signal_cb (ch = "signal") or lv_obj_send_event (ch = "event")
Emit(m, ch, kind, obj, cb) ==
    LET hit == cb.on = <<ch, kind>>
        e   == [ch |-> ch, kind |-> kind, obj |-> obj, t |-> tick,
                call |-> IF hit THEN cb.do ELSE "none",
                rq |-> m.p.reset_query, open |-> m.g.open, lp |-> m.g.lp,
                lpl |-> m.g.lpl, drag |-> m.g.drag \/ m.p.drag_in_prog,
                lpt |-> m.g.lpt, rep |-> m.g.rep, rw |-> m.g.rw]
        g1  == HistEmit(m.g, m.p, ch, kind, obj)
    IN  [m EXCEPT !.log = Append(@, e),
                  !.p = IF hit THEN ApplyCb(@, cb.do) ELSE @,
                  !.g = IF hit THEN HistCall(g1, cb.do) ELSE g1]

\* signal_cb followed by lv_obj_send_event, with no check in between
Emit2(m, sig, ev, obj, cb) ==
    Emit(Emit(m, "signal", sig, obj, cb), "event", ev, obj, cb)

(***************************************************************************)
(* A call through a NULL widget (focused->signal_cb, and obj->event_cb in  *)
(* lv_obj_send_event) is undefined: it may trap, and then the program has  *)
(* stopped (path = "fault"), or run whatever lies there and return, which  *)
(* is taken as a callback that calls a public operation or none.           *)
(***************************************************************************)
Faulted(m, ch, kind, cb) ==
    IF cb.on = <<ch, kind>> /\ cb.do = "fault"
    THEN [m EXCEPT !.path = "fault"]
    ELSE m

NullCall(m, ch, kind, cb) ==
    IF m.path = "fault" THEN m
    ELSE Faulted(Emit(m, ch, kind, NULL, cb), ch, kind, cb)

\* the program runs until it traps
Running == path # "fault"

(***************************************************************************)
(* indev_drag: the drag of act_obj (or of its drag parent).                *)
(***************************************************************************)
RECURSIVE DragTarget(_)
DragTarget(w) ==
    IF w = NULL THEN NULL
    ELSE IF lv_obj_get_drag_parent(w) THEN DragTarget(lv_obj_get_parent(w))
    ELSE w

\* lines 926-928: the drag is in progress unless the signal asked for a reset
DragInProg(m) ==
    IF m.p.reset_query THEN m ELSE [m EXCEPT !.p.drag_in_prog = TRUE]

\* lines 922-930: the object was really moved
DragMoved(m, drag_obj, cb) ==
    IF m.p.drag_in_prog
    THEN DragInProg(Emit(m, "signal", "DRAG_BEGIN", drag_obj, cb))
    ELSE [m EXCEPT !.p.drag_in_prog = TRUE]

\* C25 mutant: the limit is looked at on every sample
indev_drag_unlatched(m, cb) ==
    LET drag_obj == DragTarget(m.p.act_obj)
    IN  IF drag_obj = NULL THEN m
        ELSE IF ~lv_obj_get_drag(drag_obj) THEN m
        ELSE
          LET sum == Pt(m.p.drag_sum.x + m.p.vect.x, m.p.drag_sum.y + m.p.vect.y)
              out == \/ Abs(sum.x) >= LV_INDEV_DRAG_LIMIT
                     \/ Abs(sum.y) >= LV_INDEV_DRAG_LIMIT
              m1  == [m EXCEPT !.p.drag_sum = sum, !.p.drag_limit_out = out]
          IN  IF out /\ (m1.p.vect.x # 0 \/ m1.p.vect.y # 0)
              THEN LET prev_c == m1.co[drag_obj]
                       m2 == [m1 EXCEPT !.co = lv_obj_set_pos(@, drag_obj,
                                                  prev_c.x + m1.p.vect.x,
                                                  prev_c.y + m1.p.vect.y)]
                   IN  IF m2.co[drag_obj] # prev_c
                       THEN DragMoved(m2, drag_obj, cb)
                       ELSE m2
              ELSE m1

indev_drag(m, cb) ==
    LET drag_obj == DragTarget(m.p.act_obj)
    IN  IF drag_obj = NULL THEN m
        ELSE IF ~lv_obj_get_drag(drag_obj) THEN m
        ELSE
          LET sum == Pt(m.p.drag_sum.x + m.p.vect.x, m.p.drag_sum.y + m.p.vect.y)
              out == \/ m.p.drag_limit_out
                     \/ Abs(sum.x) >= LV_INDEV_DRAG_LIMIT
                     \/ Abs(sum.y) >= LV_INDEV_DRAG_LIMIT
              m1  == [m EXCEPT !.p.drag_sum = sum, !.p.drag_limit_out = out]
          IN  IF out /\ (m1.p.vect.x # 0 \/ m1.p.vect.y # 0)
              THEN LET prev_c == m1.co[drag_obj]
                       m2 == [m1 EXCEPT !.co = lv_obj_set_pos(@, drag_obj,
                                                  prev_c.x + m1.p.vect.x,
                                                  prev_c.y + m1.p.vect.y)]
                   IN  IF m2.co[drag_obj] # prev_c
                       THEN DragMoved(m2, drag_obj, cb)
                       ELSE m2
              ELSE m1

(***************************************************************************)
(* indev_drag_throw: the throw of last_obj after the release.              *)
(***************************************************************************)
\* C13 mutant: the throw is reduced by 10 percent whatever the build says
ThrowStep_default(m, drag_obj, cb) ==
    LET tv == Pt(TruncDiv(m.p.drag_throw_vect.x * (100 - LV_INDEV_DRAG_THROW), 100),
                 TruncDiv(m.p.drag_throw_vect.y * (100 - LV_INDEV_DRAG_THROW), 100))
        m1 == [m EXCEPT !.p.drag_throw_vect = tv]
    IN  IF tv.x # 0 \/ tv.y # 0
        THEN LET ori == m1.co[drag_obj]
                 m2  == [m1 EXCEPT !.co = lv_obj_set_pos(@, drag_obj,
                                              ori.x + tv.x, ori.y + tv.y)]
                 new == m2.co[drag_obj]
             IN  IF (ori.x = new.x \/ tv.x = 0) /\ (ori.y = new.y \/ tv.y = 0)
                 THEN Emit([m2 EXCEPT !.p.drag_in_prog = FALSE,
                                      !.p.vect = Pt(0, 0),
                                      !.p.drag_throw_vect = Pt(0, 0)],
                           "signal", "DRAG_END", drag_obj, cb)
                 ELSE m2
        ELSE Emit([m1 EXCEPT !.p.drag_in_prog = FALSE],
                  "signal", "DRAG_END", drag_obj, cb)

\* lines 975-1007: the vector is reduced and applied
ThrowStep(m, drag_obj, cb) ==
    LET tv == Pt(TruncDiv(m.p.drag_throw_vect.x * (100 - conf.drag_throw), 100),
                 TruncDiv(m.p.drag_throw_vect.y * (100 - conf.drag_throw), 100))
        m1 == [m EXCEPT !.p.drag_throw_vect = tv]
    IN  IF tv.x # 0 \/ tv.y # 0
        THEN LET ori == m1.co[drag_obj]
                 m2  == [m1 EXCEPT !.co = lv_obj_set_pos(@, drag_obj,
                                              ori.x + tv.x, ori.y + tv.y)]
                 new == m2.co[drag_obj]
             IN  IF (ori.x = new.x \/ tv.x = 0) /\ (ori.y = new.y \/ tv.y = 0)
                 THEN Emit([m2 EXCEPT !.p.drag_in_prog = FALSE,
                                      !.p.vect = Pt(0, 0),
                                      !.p.drag_throw_vect = Pt(0, 0)],
                           "signal", "DRAG_END", drag_obj, cb)
                 ELSE m2
        ELSE Emit([m1 EXCEPT !.p.drag_in_prog = FALSE],
                  "signal", "DRAG_END", drag_obj, cb)

\* C14 mutant: the throw does nothing
indev_drag_throw_idle(m, cb) == m

indev_drag_throw(m, cb) ==
    IF ~m.p.drag_in_prog THEN m
    ELSE LET drag_obj == DragTarget(m.p.last_obj)
         IN  IF drag_obj = NULL THEN m
             ELSE IF ~lv_obj_get_drag_throw(drag_obj)
             THEN Emit([m EXCEPT !.p.drag_in_prog = FALSE],
                       "signal", "DRAG_END", drag_obj, cb)
             ELSE ThrowStep(m, drag_obj, cb)

(***************************************************************************)
(* indev_proc_press.  The parts return [m, ret]: ret is TRUE when the code *)
(* returns from indev_proc_press there.                                    *)
(***************************************************************************)
\* if(proc->reset_query != 0) return;
Returned(m) == [m |-> m, ret |-> m.p.reset_query]

\* lines 590-606: the widget the press is on
\* C26 mutant: every pressed sample searches the pressed widget again
PressSearch_always(m) == SearchLayers(m.co, m.p.act_point)

PressSearch(m) ==
    IF m.p.act_obj = NULL
    THEN SearchLayers(m.co, m.p.act_point)
    ELSE IF ~m.p.drag_in_prog /\ ~lv_obj_is_protected(m.p.act_obj)
    THEN SearchLayers(m.co, m.p.act_point)
    ELSE m.p.act_obj

\* C11 mutant: a new press keeps the long press of the press before it
PressNewObj_stale(m, cb) ==
    Returned(Emit2([m EXCEPT !.p.pr_timestamp = tick,
                             !.p.drag_limit_out = FALSE,
                             !.p.drag_in_prog = FALSE,
                             !.p.drag_sum = Pt(0, 0),
                             !.p.vect = Pt(0, 0)],
                   "PRESSED", "PRESSED", m.p.act_obj, cb))

\* lines 624-656: a widget is newly pressed
PressNewObj(m, cb) ==
    Returned(Emit2([m EXCEPT !.p.pr_timestamp = tick,
                             !.p.long_pr_sent = FALSE,
                             !.p.drag_limit_out = FALSE,
                             !.p.drag_in_prog = FALSE,
                             !.p.drag_sum = Pt(0, 0),
                             !.p.vect = Pt(0, 0)],
                   "PRESSED", "PRESSED", m.p.act_obj, cb))

\* C30 mutant: the pressed widget is not kept as last_obj
PressTake_act(m, pr_obj, cb) ==
    IF pr_obj = NULL THEN [m |-> [m EXCEPT !.p.act_obj = NULL], ret |-> FALSE]
    ELSE PressNewObj([m EXCEPT !.p.act_obj = pr_obj], cb)

\* lines 622-657: pr_obj becomes act_obj and last_obj
PressTake(m, pr_obj, cb) ==
    LET m3 == [m EXCEPT !.p.act_obj = pr_obj, !.p.last_obj = pr_obj]
    IN  IF pr_obj = NULL THEN [m |-> m3, ret |-> FALSE]
        ELSE PressNewObj(m3, cb)

\* line 619: the press-lost signal may have asked for a reset
PressLost(m, pr_obj, cb) ==
    IF m.p.reset_query THEN [m |-> m, ret |-> TRUE]
    ELSE PressTake(m, pr_obj, cb)

\* C1 mutant: the widget that loses the press is not told
PressChange_silent(m, pr_obj, cb) ==
    IF pr_obj = m.p.act_obj THEN [m |-> m, ret |-> FALSE]
    ELSE
      LET m1 == [m EXCEPT !.p.last_point = m.p.act_point]
          m3 == [m1 EXCEPT !.p.act_obj = pr_obj, !.p.last_obj = pr_obj]
      IN  IF pr_obj = NULL THEN [m |-> m3, ret |-> FALSE]
          ELSE PressNewObj(m3, cb)

\* lines 608-657: the press found another widget than act_obj
PressChange(m, pr_obj, cb) ==
    IF pr_obj = m.p.act_obj THEN [m |-> m, ret |-> FALSE]
    ELSE
      LET m1 == [m EXCEPT !.p.last_point = m.p.act_point]
      IN  IF m1.p.act_obj # NULL
          THEN PressLost(Emit2(m1, "PRESS_LOST", "PRESS_LOST",
                               m1.p.act_obj, cb),
                         pr_obj, cb)
          ELSE PressTake(m1, pr_obj, cb)

\* lines 659-673: vect and the low-pass filtered throw vector
ThrowFilter(v, d) ==
    LET a == Shr3(v * 5)
        b == IF a < 0 THEN a + 1 ELSE IF a > 0 THEN a - 1 ELSE a
    IN  b + Shr3(d * 4)

PressVect(m) ==
    LET v == Pt(m.p.act_point.x - m.p.last_point.x,
                m.p.act_point.y - m.p.last_point.y)
    IN  [m EXCEPT !.p.vect = v,
                  !.p.drag_throw_vect = Pt(ThrowFilter(m.p.drag_throw_vect.x, v.x),
                                           ThrowFilter(m.p.drag_throw_vect.y, v.y))]

\* C7 mutant: the long press does not restart the repeat timer
LongPressSent_stale(m) ==
    IF m.p.reset_query THEN [m |-> m, ret |-> TRUE]
    ELSE [m |-> [m EXCEPT !.p.long_pr_sent = TRUE], ret |-> FALSE]

\* lines 690-696: after the long press was sent
LongPressSent(m) ==
    IF m.p.reset_query THEN [m |-> m, ret |-> TRUE]
    ELSE [m |-> [m EXCEPT !.p.long_pr_sent = TRUE,
                          !.p.longpr_rep_timestamp = tick],
          ret |-> FALSE]

\* C16 mutant: the long press is sent when the time has just elapsed
LongPress_atleast(m, pr_obj, cb) ==
    IF /\ ~m.p.drag_in_prog /\ ~m.p.long_pr_sent
       /\ lv_tick_elaps(m.p.pr_timestamp) >= LV_INDEV_LONG_PRESS_TIME
    THEN LongPressSent(Emit2(m, "LONG_PRESS", "LONG_PRESSED", pr_obj, cb))
    ELSE [m |-> m, ret |-> FALSE]

\* lines 684-698: the long press
LongPress(m, pr_obj, cb) ==
    IF /\ ~m.p.drag_in_prog /\ ~m.p.long_pr_sent
       /\ lv_tick_elaps(m.p.pr_timestamp) > LV_INDEV_LONG_PRESS_TIME
    THEN LongPressSent(Emit2(m, "LONG_PRESS", "LONG_PRESSED", pr_obj, cb))
    ELSE [m |-> m, ret |-> FALSE]

\* lines 705-707: after the repeated long press was sent
LongPressRepSent(m) ==
    IF m.p.reset_query THEN m
    ELSE [m EXCEPT !.p.longpr_rep_timestamp = tick]

\* lines 699-709: the repeated long press
LongPressRep(m, pr_obj, cb) ==
    IF /\ ~m.p.drag_in_prog /\ m.p.long_pr_sent
       /\ lv_tick_elaps(m.p.longpr_rep_timestamp) > LV_INDEV_LONG_PRESS_REP_TIME
    THEN LongPressRepSent(Emit2(m, "LONG_PRESS_REP", "LONG_PRESSED_REPEAT",
                                pr_obj, cb))
    ELSE m

\* lines 698-709: the repeat follows unless the long press returned
PressRepeat(lp, pr_obj, cb) ==
    IF lp.ret THEN lp.m ELSE LongPressRep(lp.m, pr_obj, cb)

\* lines 681-709: the long press follows unless the drag asked for a reset
PressHold(m, pr_obj, cb) ==
    IF m.p.reset_query THEN m
    ELSE PressRepeat(LongPress(m, pr_obj, cb), pr_obj, cb)

\* lines 678-709: the drag follows unless "pressing" asked for a reset
PressDrag(m, pr_obj, cb) ==
    IF m.p.reset_query THEN m
    ELSE PressHold(indev_drag(m, cb), pr_obj, cb)

\* lines 675-710: pressing, drag and long press of act_obj
PressActObj(m, pr_obj, cb) ==
    PressDrag(Emit2(m, "PRESSING", "PRESSING", m.p.act_obj, cb), pr_obj, cb)

\* C2 mutant: pressing is sent whether or not a widget is pressed
PressMove_any(m, pr_obj, cb) == PressActObj(m, pr_obj, cb)

\* lines 675-710: the pressed widget, if there is one, is told
PressMove(m, pr_obj, cb) ==
    IF m.p.act_obj # NULL THEN PressActObj(m, pr_obj, cb) ELSE m

\* lines 659-710: what follows the search of the pressed widget
PressFound(c, pr_obj, cb) ==
    IF c.ret THEN c.m ELSE PressMove(PressVect(c.m), pr_obj, cb)

\* lines 608-710: the press on pr_obj
PressOn(m, pr_obj, cb) ==
    PressFound(PressChange(m, pr_obj, cb), pr_obj, cb)

\* C21 mutant: the press does not look at wait_unil_release
indev_proc_press_nowait(m, cb) ==
    PressOn(m, PressSearch(m), cb)

indev_proc_press(m, cb) ==
    IF m.p.wait_unil_release THEN m
    ELSE PressOn(m, PressSearch(m), cb)

(***************************************************************************)
(* indev_proc_release.                                                     *)
(***************************************************************************)
\* C3 mutant: the click does not look at the drag
ClickOrReleased_drag(m, ev_released, cb) ==
    IF ~m.p.long_pr_sent
    THEN Emit(m, "event", "CLICKED", m.p.act_obj, cb)
    ELSE Emit(m, "event", ev_released, m.p.act_obj, cb)

\* lines 738-742 and 753-757: the click, or else the released event
ClickOrReleased(m, ev_released, cb) ==
    IF ~m.p.long_pr_sent /\ ~m.p.drag_in_prog
    THEN Emit(m, "event", "CLICKED", m.p.act_obj, cb)
    ELSE Emit(m, "event", ev_released, m.p.act_obj, cb)

\* lines 737-742 and 752-758: the released signal and the click
ReleasedAndClick(m, ev_released, cb) ==
    ClickOrReleased(Emit(m, "signal", "RELEASED", m.p.act_obj, cb),
                    ev_released, cb)

\* lines 733-758: the signals and events of the release
ReleaseSend(m, cb) ==
    IF lv_obj_is_protected(m.p.act_obj)
    THEN IF indev_search_obj(m.co, m.p.act_point, m.p.act_obj) = m.p.act_obj
         THEN ReleasedAndClick(m, "RELEASED", cb)
         ELSE Emit2(m, "PRESS_LOST", "SIGNAL_PRESS_LOST", m.p.act_obj, cb)
    ELSE ReleasedAndClick(m, "SIGNAL_RELEASED", cb)

\* lines 760-797: act_obj is forgotten unless a reset was asked for
ReleaseForget(m) ==
    IF m.p.reset_query THEN [m |-> m, ret |-> TRUE]
    ELSE [m |-> [m EXCEPT !.p.act_obj = NULL,
                          !.p.pr_timestamp = 0,
                          !.p.longpr_rep_timestamp = 0],
          ret |-> FALSE]

\* lines 728-797: act_obj is released
ReleaseActObj(m, cb) == ReleaseForget(ReleaseSend(m, cb))

\* lines 799-804: the throw of last_obj
ReleaseThrow(r, cb) ==
    IF r.ret THEN r.m
    ELSE IF r.m.p.last_obj # NULL /\ ~r.m.p.reset_query
    THEN indev_drag_throw(r.m, cb)
    ELSE r.m

\* lines 728-804: the release once wait_unil_release was looked at
ReleaseObj(m, cb) ==
    ReleaseThrow(IF m.p.act_obj # NULL THEN ReleaseActObj(m, cb)
                 ELSE [m |-> m, ret |-> FALSE],
                 cb)

indev_proc_release(m, cb) ==
    ReleaseObj(IF m.p.wait_unil_release
               THEN [m EXCEPT !.p.act_obj = NULL, !.p.last_obj = NULL,
                              !.p.pr_timestamp = 0,
                              !.p.longpr_rep_timestamp = 0,
                              !.p.wait_unil_release = FALSE]
               ELSE m,
               cb)

(***************************************************************************)
(* indev_pointer_proc and indev_button_proc.                               *)
(***************************************************************************)
\* lines 375-376 and 574-575: act_point is kept as last_point
SaveLastPoint(m) == [m EXCEPT !.p.last_point = m.p.act_point]

\* lines 369-373: the press or the release of the point
PointerState(m, cb) ==
    IF m.p.state = LV_INDEV_STATE_PR
    THEN [indev_proc_press(m, cb) EXCEPT !.path = "press"]
    ELSE [indev_proc_release(m, cb) EXCEPT !.path = "release"]

indev_pointer_proc(m, d, cb) ==
    SaveLastPoint(PointerState([m EXCEPT !.p.act_point = d.point], cb))

\* C8 mutant: the state of the sample is not looked at
ButtonSamePoint_any(p, d) ==
    /\ p.last_point.x = p.act_point.x
    /\ p.last_point.y = p.act_point.y

\* lines 563-572: the same point is still pressed
ButtonSamePoint(p, d) ==
    /\ p.last_point.x = p.act_point.x
    /\ p.last_point.y = p.act_point.y
    /\ d.state = LV_INDEV_STATE_PR

\* lines 563-572: the press or the release of the button's point
ButtonState(m, d, cb) ==
    IF ButtonSamePoint(m.p, d)
    THEN [indev_proc_press(m, cb) EXCEPT !.path = "press"]
    ELSE [indev_proc_release(m, cb) EXCEPT !.path = "release"]

\* C9 mutant: last_point is not refreshed
indev_button_proc_norefresh(m, d, cb) ==
    ButtonState([m EXCEPT !.p.act_point = m.p.btn_points[d.btn_id + 1]],
                d, cb)

indev_button_proc(m, d, cb) ==
    SaveLastPoint(
        ButtonState([m EXCEPT !.p.act_point = m.p.btn_points[d.btn_id + 1]],
                    d, cb))

(***************************************************************************)
(* The focus group of the keypad and the encoder (lv_group.c): the widgets *)
(* in it, the index of the focused one (0: none) and the edit mode.  A     *)
(* change of the focus and a key sent to the focused widget are logged as  *)
(* emissions on the channels "focus" and "data": the focus callback and    *)
(* the widget's signal function run there.  B is editable, A is not.       *)
(***************************************************************************)
NewGroup(objs, edit) ==
    [obj_ll |-> objs, focus |-> IF objs = <<>> THEN 0 ELSE 1, editing |-> edit]

NoGroup == NewGroup(<<>>, FALSE)

lv_group_get_focused(grp) ==
    IF grp.focus = 0 THEN NULL ELSE grp.obj_ll[grp.focus]

lv_group_get_editing(grp) == grp.editing

\* g->obj_ll.head == g->obj_ll.tail
OneObj(grp) == Len(grp.obj_ll) <= 1

\* the answer of the widget's signal function to LV_SIGNAL_GET_EDITABLE
Editable(w) == w = "B"

lv_group_set_editing(m, edit) == [m EXCEPT !.grp.editing = edit]

FocusNext(grp) ==
    IF grp.focus = 0 THEN 0 ELSE (grp.focus % Len(grp.obj_ll)) + 1

FocusPrev(grp) ==
    IF grp.focus = 0 THEN 0
    ELSE IF grp.focus = 1 THEN Len(grp.obj_ll) ELSE grp.focus - 1

lv_group_focus_next(m, cb) ==
    Emit([m EXCEPT !.grp.focus = FocusNext(m.grp)], "focus", "next",
         lv_group_get_focused([m.grp EXCEPT !.focus = FocusNext(m.grp)]), cb)

lv_group_focus_prev(m, cb) ==
    Emit([m EXCEPT !.grp.focus = FocusPrev(m.grp)], "focus", "prev",
         lv_group_get_focused([m.grp EXCEPT !.focus = FocusPrev(m.grp)]), cb)

lv_group_send_data(m, key, cb) ==
    Emit(m, "data", key, lv_group_get_focused(m.grp), cb)

(***************************************************************************)
(* indev_keypad_proc.  The parts return [m, ret, key]: ret is TRUE when    *)
(* the code returns from indev_keypad_proc there, key is data->key at the  *)
(* end of the function.                                                    *)
(***************************************************************************)
Kept(m, key) == [m |-> m, ret |-> FALSE, key |-> key]

\* lines 395-401: the key press happened
KeypadPress(m, d, cb) ==
    IF lv_group_get_focused(m.grp) # NULL /\ d.key = LV_GROUP_KEY_ENTER
    THEN Emit2([m EXCEPT !.p.pr_timestamp = tick], "PRESSED", "PRESSED",
               lv_group_get_focused(m.grp), cb)
    ELSE [m EXCEPT !.p.pr_timestamp = tick]

\* line 412
LongPrSent(m) == [m EXCEPT !.p.long_pr_sent = TRUE]

\* lines 405-415: the key is pressed on
KeypadPressing(m, d, cb) ==
    IF /\ d.key = LV_GROUP_KEY_ENTER
       /\ ~m.p.long_pr_sent
       /\ lv_tick_elaps(m.p.pr_timestamp) > LV_INDEV_LONG_PRESS_TIME
       /\ lv_group_get_focused(m.grp) # NULL
    THEN Emit(LongPrSent(Emit(m, "signal", "LONG_PRESS",
                              lv_group_get_focused(m.grp), cb)),
              "event", "LONG_PRESSED", lv_group_get_focused(m.grp), cb)
    ELSE m

\* C15 mutant: the navigation keys toggle the edit mode
KeypadLeaveEdit_toggle(m) ==
    IF m.p.last_key \in {LV_GROUP_KEY_NEXT, LV_GROUP_KEY_PREV}
    THEN lv_group_set_editing(m, ~lv_group_get_editing(m.grp))
    ELSE m

\* lines 424-426: the navigation keys leave the edit mode
KeypadLeaveEdit(m) ==
    IF m.p.last_key \in {LV_GROUP_KEY_NEXT, LV_GROUP_KEY_PREV}
    THEN lv_group_set_editing(m, FALSE)
    ELSE m

\* C17 mutant: the release of enter is signalled after a long press too
KeypadKey_released(m, focused, cb) ==
    CASE m.p.last_key = LV_GROUP_KEY_NEXT -> lv_group_focus_next(m, cb)
      [] m.p.last_key = LV_GROUP_KEY_PREV -> lv_group_focus_prev(m, cb)
      [] m.p.last_key = LV_GROUP_KEY_ENTER ->
           IF ~m.p.long_pr_sent
           THEN Emit2(m, "RELEASED", "CLICKED", focused, cb)
           ELSE Emit(m, "signal", "RELEASED", focused, cb)
      [] OTHER -> lv_group_send_data(m, m.p.last_key, cb)

\* lines 434-435: focused is used with no check
KeypadEnter(m, focused, cb) ==
    IF focused = NULL
    THEN NullCall(NullCall(m, "signal", "RELEASED", cb),
                  "event", "CLICKED", cb)
    ELSE Emit2(m, "RELEASED", "CLICKED", focused, cb)

\* lines 428-439: the released key is acted on
KeypadKey(m, focused, cb) ==
    CASE m.p.last_key = LV_GROUP_KEY_NEXT -> lv_group_focus_next(m, cb)
      [] m.p.last_key = LV_GROUP_KEY_PREV -> lv_group_focus_prev(m, cb)
      [] m.p.last_key = LV_GROUP_KEY_ENTER ->
           IF ~m.p.long_pr_sent
           THEN KeypadEnter(m, focused, cb)
           ELSE m
      [] OTHER -> lv_group_send_data(m, m.p.last_key, cb)

\* lines 441-444: the press is over unless a reset was asked for
KeyReleased(m) ==
    IF m.p.reset_query \/ m.path = "fault" THEN [m |-> m, ret |-> TRUE, key |-> m.p.last_key]
    ELSE Kept([m EXCEPT !.p.pr_timestamp = 0, !.p.long_pr_sent = FALSE],
              m.p.last_key)

\* lines 418-445: the release happened; the key released is last_key
KeypadRelease(m, focused, cb) ==
    KeyReleased(KeypadKey(KeypadLeaveEdit(m), focused, cb))

\* lines 392-445: the edge that the sample makes with the last state
KeypadEdge(m, d, cb) ==
    CASE d.state = LV_INDEV_STATE_PR /\ m.p.last_state = LV_INDEV_STATE_REL ->
           Kept(KeypadPress(m, d, cb), d.key)
      [] d.state = LV_INDEV_STATE_PR /\ m.p.last_state = LV_INDEV_STATE_PR ->
           Kept(KeypadPressing(m, d, cb), d.key)
      [] d.state = LV_INDEV_STATE_REL /\ m.p.last_state = LV_INDEV_STATE_PR ->
           KeypadRelease(m, lv_group_get_focused(m.grp), cb)
      [] OTHER -> Kept(m, d.key)

\* C28 mutant: the key of the sample is kept, not the key released
KeySave_sample(r, d) ==
    IF r.ret THEN r.m
    ELSE [r.m EXCEPT !.p.last_state = d.state, !.p.last_key = d.key]

\* lines 447-448 and 544-545: the state and the key are kept
KeySave(r, d) ==
    IF r.ret THEN r.m
    ELSE [r.m EXCEPT !.p.last_state = d.state, !.p.last_key = r.key]

\* C23 mutant: the keypad is processed with no group too
indev_keypad_proc_nogroup(m, d, cb) ==
    [KeySave(KeypadEdge(m, d, cb), d) EXCEPT
        !.path = IF @ = "fault" THEN @ ELSE "keypad"]

indev_keypad_proc(m, d, cb) ==
    IF m.p.group = NULL THEN m
    ELSE [KeySave(KeypadEdge(m, d, cb), d) EXCEPT
            !.path = IF @ = "fault" THEN @ ELSE "keypad"]

(***************************************************************************)
(* indev_encoder_proc.                                                     *)
(***************************************************************************)
\* one pass of the loops of lines 473-484
EncoderStep(m, editing, up, cb) ==
    IF editing
    THEN lv_group_send_data(m, IF up THEN LV_GROUP_KEY_RIGHT
                                     ELSE LV_GROUP_KEY_LEFT, cb)
    ELSE IF up THEN lv_group_focus_next(m, cb)
    ELSE lv_group_focus_prev(m, cb)

RECURSIVE EncoderSteps(_, _, _, _, _)
EncoderSteps(m, n, editing, up, cb) ==
    IF n <= 0 THEN m
    ELSE EncoderSteps(EncoderStep(m, editing, up, cb), n - 1, editing, up, cb)

\* C18 mutant: the steps are taken with the button pressed too
EncoderTurn_pressed(m, d, cb) ==
    EncoderSteps(m, Abs(d.enc_diff), lv_group_get_editing(m.grp),
                 d.enc_diff > 0, cb)

\* lines 467-487: the steps, valid only with the button released
EncoderTurn(m, d, cb) ==
    IF d.state = LV_INDEV_STATE_REL
    THEN EncoderSteps(m, Abs(d.enc_diff), lv_group_get_editing(m.grp),
                      d.enc_diff > 0, cb)
    ELSE m

\* lines 502 and 522: the focused widget is asked whether it is editable
EncoderAsk(m, cb) ==
    IF lv_group_get_focused(m.grp) # NULL
    THEN Emit(m, "signal", "GET_EDITABLE", lv_group_get_focused(m.grp), cb)
    ELSE m

EncoderSignalLong(m, cb) ==
    IF lv_group_get_focused(m.grp) # NULL
    THEN Emit(m, "signal", "LONG_PRESS", lv_group_get_focused(m.grp), cb)
    ELSE m

\* lines 504-514: the long press toggles the edit mode or is sent on
EncoderLong(m, cb) ==
    IF Editable(lv_group_get_focused(m.grp))
    THEN IF ~OneObj(m.grp)
         THEN lv_group_set_editing(m, ~lv_group_get_editing(m.grp))
         ELSE EncoderSignalLong(m, cb)
    ELSE EncoderSignalLong(m, cb)

\* lines 496-516: the button is pressed on
EncoderPressing(m, cb) ==
    IF /\ ~m.p.long_pr_sent
       /\ lv_tick_elaps(m.p.pr_timestamp) > LV_INDEV_LONG_PRESS_TIME
    THEN LongPrSent(EncoderLong(EncoderAsk(m, cb), cb))
    ELSE m

\* C29 mutant: the release does not look at long_pr_sent
EncoderEnter_again(m, cb) ==
    IF ~Editable(lv_group_get_focused(m.grp))
    THEN lv_group_send_data(m, LV_GROUP_KEY_ENTER, cb)
    ELSE IF m.grp.editing
    THEN lv_group_send_data(m, LV_GROUP_KEY_ENTER, cb)
    ELSE lv_group_set_editing(m, ~lv_group_get_editing(m.grp))

\* lines 525-536: the release sends enter or enters the edit mode
EncoderEnter(m, cb) ==
    IF ~Editable(lv_group_get_focused(m.grp))
    THEN lv_group_send_data(m, LV_GROUP_KEY_ENTER, cb)
    ELSE IF m.grp.editing
    THEN IF ~m.p.long_pr_sent \/ OneObj(m.grp)
         THEN lv_group_send_data(m, LV_GROUP_KEY_ENTER, cb)
         ELSE m
    ELSE IF ~m.p.long_pr_sent
    THEN lv_group_set_editing(m, ~lv_group_get_editing(m.grp))
    ELSE m

\* lines 519-542: the release happened
EncoderRelease(m, d, cb) ==
    [KeyReleased(EncoderEnter(EncoderAsk(m, cb), cb)) EXCEPT !.key = d.key]

\* lines 489-542: the edge that the sample makes with the last state
EncoderEdge(m, d, cb) ==
    CASE d.state = LV_INDEV_STATE_PR /\ m.p.last_state = LV_INDEV_STATE_REL ->
           Kept([m EXCEPT !.p.pr_timestamp = tick], d.key)
      [] d.state = LV_INDEV_STATE_PR /\ m.p.last_state = LV_INDEV_STATE_PR ->
           Kept(EncoderPressing(m, cb), d.key)
      [] d.state = LV_INDEV_STATE_REL /\ m.p.last_state = LV_INDEV_STATE_PR ->
           EncoderRelease(m, d, cb)
      [] OTHER -> Kept(m, d.key)

indev_encoder_proc(m, d, cb) ==
    IF m.p.group = NULL THEN m
    ELSE [KeySave(EncoderEdge(EncoderTurn(m, d, cb), d, cb), d)
            EXCEPT !.path = "encoder"]

(***************************************************************************)
(* indev_proc_task, one HAL read at a time.                                *)
(***************************************************************************)
\* lines 322-340: one sample is read and processed
\* lines 322-324: the read callback of the driver is called, a reset that it
\* asked for is handled and the state of the sample is taken over
ReadSample(p, co, g, grp, d, cb) ==
    LET rd == cb.on = HalRead
        p1 == IF rd THEN ApplyCb(p, cb.do) ELSE p
        g1 == IF rd THEN HistCall(HistBegin(g), cb.do) ELSE HistBegin(g)
        p2 == indev_proc_reset_query_handler(p1)
    IN  [p |-> [p2 EXCEPT !.state = d.state], co |-> co, log |-> <<>>,
         g |-> HistEnd(g1, p2), path |-> "none", grp |-> grp]

\* lines 330-338: the sample goes to the code of the device's type
ProcessSample(m, d, cb) ==
    CASE m.p.type = LV_INDEV_TYPE_POINTER -> indev_pointer_proc(m, d, cb)
      [] m.p.type = LV_INDEV_TYPE_KEYPAD  -> indev_keypad_proc(m, d, cb)
      [] m.p.type = LV_INDEV_TYPE_ENCODER -> indev_encoder_proc(m, d, cb)
      [] m.p.type = LV_INDEV_TYPE_BUTTON  -> indev_button_proc(m, d, cb)
      [] OTHER -> m

\* line 340: a reset asked for during the processing is handled
HandleQuery(m) ==
    LET p4 == indev_proc_reset_query_handler(m.p)
    IN  [m EXCEPT !.p = p4, !.g = HistEnd(m.g, p4)]

ReadAndProcess(p, co, g, grp, d, cb) ==
    HandleQuery(ProcessSample(ReadSample(p, co, g, grp, d, cb), d, cb))

\* lines 312-318 and 343: the loop goes on to the next enabled device, from i
RECURSIVE TaskLoop(_, _)
TaskLoop(devs, i) ==
    IF i > Len(devs) THEN [devs |-> devs, act |-> 0]
    ELSE LET devs1 == [devs EXCEPT ![i] = indev_proc_reset_query_handler(@)]
         IN  IF ~devs1[i].disabled THEN [devs |-> devs1, act |-> i]
             ELSE TaskLoop(devs1, i + 1)

States == {LV_INDEV_STATE_PR, LV_INDEV_STATE_REL}

\* the keys a keypad reports
Keys == {LV_GROUP_KEY_ENTER, LV_GROUP_KEY_NEXT, LV_GROUP_KEY_PREV,
         LV_GROUP_KEY_RIGHT}

\* the samples the read callback of a device's driver can deliver
Sample(pt, b, k, n, st) ==
    [point |-> pt, btn_id |-> b, key |-> k, enc_diff |-> n, state |-> st]

Samples(p) ==
    CASE p.type = LV_INDEV_TYPE_BUTTON ->
           {Sample(Pt(0, 0), b, NULL, 0, st) :
              b \in 0..(Len(p.btn_points) - 1), st \in States}
      [] p.type = LV_INDEV_TYPE_KEYPAD ->
           {Sample(Pt(0, 0), 0, k, 0, st) : k \in Keys, st \in States}
      [] p.type = LV_INDEV_TYPE_ENCODER ->
           {Sample(Pt(0, 0), 0, NULL, n, st) :
              n \in (-MaxDiff)..MaxDiff, st \in States}
      [] OTHER ->
           {Sample(pt, 0, NULL, 0, st) : pt \in p.driver, st \in States}

\* the callback behaviours that differ on this sample: a callback on an
\* emission that the sample does not reach is no callback
CallbacksOn(quiet) ==
    {NoCb, [on |-> HalRead, do |-> "reset"]}
    \cup {[on |-> <<quiet[k].ch, quiet[k].kind>>, do |-> a] :
             k \in DOMAIN quiet, a \in CbActs}
    \cup {[on |-> <<quiet[k].ch, quiet[k].kind>>, do |-> "fault"] :
             k \in {j \in DOMAIN quiet :
                      /\ quiet[j].obj = NULL
                      /\ quiet[j].ch \in {"signal", "event"}}}

Callbacks(p, co, g, grp, d) ==
    CallbacksOn(ReadAndProcess(p, co, g, grp, d, NoCb).log)

\* the sample last read: lv_indev_data_t, the call its read callback made,
\* and whether a button sample resolved to the last point
NoData == [point |-> Pt(0, 0), btn_id |-> 0, key |-> NULL, enc_diff |-> 0,
           state |-> LV_INDEV_STATE_REL, call |-> "none", same |-> FALSE]

\* log, data and path tell of the last sample only while it is the last step
Quiet == log' = <<>> /\ data' = NoData /\ path' = "none"

\* trace follows a device from lv_indev_init on: the samples read, the tick
\* at which they were read and what each one emitted, as long as they go
\* along one of the sequences conf.scripts, there are at most MaxTrace of
\* them and no callback and no caller of the public operations has
\* interfered.  A step of a script is a sample and the time since the
\* sample before it (-1: any).
NoTrace == [ok |-> FALSE, seq |-> <<>>]

Emitted(lg) == [k \in DOMAIN lg |-> <<lg[k].ch, lg[k].kind, lg[k].obj>>]

Step(d, gap) == [d |-> d, gap |-> gap]

Scripted(d) ==
    LET n == Len(trace.seq) + 1
    IN  \E sc \in conf.scripts :
            /\ n <= Len(sc)
            /\ sc[n].d = d
            /\ sc[n].gap # -1 => n > 1 /\ tick - trace.seq[n - 1].t = sc[n].gap
            /\ \A k \in 1..(n - 1) :
                  /\ sc[k].d.state = trace.seq[k].state
                  /\ sc[k].d.point = trace.seq[k].point
                  /\ sc[k].d.btn_id = trace.seq[k].btn_id
                  /\ sc[k].d.key = trace.seq[k].key
                  /\ sc[k].gap # -1 =>
                        trace.seq[k].t - trace.seq[k - 1].t = sc[k].gap

Traced(p, d, cb, lg) ==
    IF trace.ok /\ Len(trace.seq) < MaxTrace /\ cb = NoCb /\ Scripted(d)
    THEN [trace EXCEPT !.seq = Append(@, d @@ [t |-> tick,
                                               out |-> Emitted(lg)])]
    ELSE NoTrace

HistSeq(devs, gs) ==
    [k \in DOMAIN devs |-> HistEnd(HistBegin(gs[k]), devs[k])]

task_begin ==
    /\ pc = "idle" /\ Running
    /\ LET r == TaskLoop(indev, 1)
       IN  /\ indev' = r.devs
           /\ indev_act' = r.act
           /\ pc' = IF r.act = 0 THEN "idle" ELSE "read"
           /\ hist' = HistSeq(r.devs, hist)
    /\ Quiet
    /\ UNCHANGED <<coords, tick, trace, group, conf>>

\* lines 320-340: lv_indev_read and the processing of its sample
task_read ==
    /\ pc = "read" /\ Running
    /\ \E d \in Samples(indev[indev_act]) :
       \E cb \in Callbacks(indev[indev_act], coords, hist[indev_act],
                           group, d) :
       \E m \in {ReadAndProcess(indev[indev_act], coords, hist[indev_act],
                                group, d, cb)} :
         LET i == indev_act
         IN  /\ indev' = [indev EXCEPT ![i] = m.p]
             /\ coords' = m.co
             /\ log' = m.log
             /\ path' = m.path
             /\ data' = d @@
                  [call |-> IF cb.on = HalRead THEN cb.do ELSE "none",
                   same |-> /\ indev[i].type = LV_INDEV_TYPE_BUTTON
                            /\ indev[i].btn_points[d.btn_id + 1]
                                 = indev[i].last_point]
             /\ hist' = [hist EXCEPT ![i] = m.g]
             /\ trace' = Traced(indev[i], d, cb, m.log)
             /\ group' = m.grp
    /\ UNCHANGED <<tick, indev_act, pc, conf>>

\* C22 mutant: the end of the loop leaves the active device as it is
task_next_kept ==
    /\ pc = "read"
    /\ LET r == TaskLoop(indev, indev_act + 1)
       IN  /\ indev' = r.devs
           /\ indev_act' = IF r.act = 0 THEN indev_act ELSE r.act
           /\ pc' = IF r.act = 0 THEN "idle" ELSE "read"
           /\ hist' = HistSeq(r.devs, hist)
    /\ Quiet
    /\ UNCHANGED <<coords, tick, trace, group, conf>>

\* lines 341-346: the last lv_indev_read returned false (no more to read)
task_next ==
    /\ pc = "read" /\ Running
    /\ LET r == TaskLoop(indev, indev_act + 1)
       IN  /\ indev' = r.devs
           /\ indev_act' = r.act
           /\ pc' = IF r.act = 0 THEN "idle" ELSE "read"
           /\ hist' = HistSeq(r.devs, hist)
    /\ Quiet
    /\ UNCHANGED <<coords, tick, trace, group, conf>>

(***************************************************************************)
(* The public operations, called between two runs of the task.             *)
(***************************************************************************)
\* who = 0 stands for lv_indev_reset(NULL)
lv_indev_reset(devs, who) ==
    [k \in DOMAIN devs |->
        IF who = 0 \/ who = k THEN lv_indev_reset_one(devs[k]) ELSE devs[k]]

lv_indev_enable(devs, type, enable) ==
    [k \in DOMAIN devs |->
        IF devs[k].type = type THEN [devs[k] EXCEPT !.disabled = ~enable]
        ELSE devs[k]]

call_reset ==
    /\ pc = "idle" /\ Running
    /\ \E who \in 0..Len(indev) :
         /\ indev' = lv_indev_reset(indev, who)
         /\ hist' = [k \in DOMAIN hist |->
                       IF who = 0 \/ who = k
                       THEN HistCall(hist[k], "reset")
                       ELSE hist[k]]
    /\ Quiet
    /\ trace' = NoTrace
    /\ UNCHANGED <<coords, tick, indev_act, pc, group, conf>>

call_reset_lpr ==
    /\ pc = "idle" /\ Running
    /\ \E k \in DOMAIN indev :
         /\ indev' = [indev EXCEPT ![k] = lv_indev_reset_lpr(@)]
         /\ hist' = [hist EXCEPT ![k] = HistCall(@, "reset_lpr")]
    /\ Quiet
    /\ trace' = NoTrace
    /\ UNCHANGED <<coords, tick, indev_act, pc, group, conf>>

call_wait_release ==
    /\ pc = "idle" /\ Running
    /\ \E k \in DOMAIN indev :
         /\ indev' = [indev EXCEPT ![k] = lv_indev_wait_release(@)]
         /\ hist' = [hist EXCEPT ![k] = HistCall(@, "wait_release")]
    /\ Quiet
    /\ trace' = NoTrace
    /\ UNCHANGED <<coords, tick, indev_act, pc, group, conf>>

\* the tick interrupt
tick_inc ==
    /\ Running
    /\ \E dt \in conf.tick_steps : tick + dt <= MaxTick /\ tick' = tick + dt
    /\ Quiet
    /\ UNCHANGED <<indev, coords, indev_act, pc, hist, trace, group, conf>>

(***************************************************************************)
(* Specifications.  Each starts after lv_indev_init with one registered    *)
(* device; they differ in the device, the points its driver reports and    *)
(* the time left on the tick counter.                                      *)
(***************************************************************************)
InitWith(devs, t0, cf, grp) ==
    /\ indev = lv_indev_reset(devs, 0)
    /\ coords = InitCoords
    /\ conf = cf
    /\ group = grp
    /\ tick = t0
    /\ indev_act = 0
    /\ pc = "idle"
    /\ log = <<>>
    /\ data = NoData
    /\ path = "none"
    /\ hist = [k \in DOMAIN devs |-> NewHist]
    /\ trace = [ok |-> cf.scripts # {}, seq |-> <<>>]

Next ==
    \/ task_begin
    \/ task_read
    \/ task_next
    \/ call_reset
    \/ call_reset_lpr
    \/ call_wait_release
    \/ tick_inc

\* a touch pad over the protected widget A and the draggable widget B
Init ==
    InitWith(<<NewIndev(LV_INDEV_TYPE_POINTER, <<>>,
                        {Pt(0, 0), Pt(0, 2), Pt(0, 4)})>>, MaxTick - 500,
             DefaultConf, NoGroup)

Spec == Init /\ [][Next]_vars

\* a touch pad over the widget A and the bare screen, with time to repeat
InitLong ==
    InitWith(<<NewIndev(LV_INDEV_TYPE_POINTER, <<>>,
                        {Pt(0, 0), Pt(0, 4)})>>, 0,
             DefaultConf, NoGroup)

SpecLong == InitLong /\ [][Next]_vars

\* a button array with button 0 over the widget B and button 1 over A
btn_points == <<Pt(0, 4), Pt(0, 1)>>

\* a sample of button b
Btn(b, st) == Step(Sample(Pt(0, 0), b, NULL, 0, st), -1)

ScriptBtn ==
    {<<Btn(0, LV_INDEV_STATE_PR), Btn(1, LV_INDEV_STATE_PR),
       Btn(1, LV_INDEV_STATE_REL)>>,
     <<Btn(0, LV_INDEV_STATE_PR), Btn(0, LV_INDEV_STATE_PR),
       Btn(1, LV_INDEV_STATE_PR), Btn(1, LV_INDEV_STATE_PR),
       Btn(1, LV_INDEV_STATE_REL)>>}

InitBtn ==
    InitWith(<<NewIndev(LV_INDEV_TYPE_BUTTON, btn_points, {})>>,
             MaxTick - 500,
             NewConf(LV_INDEV_DRAG_THROW, TickSteps, ScriptBtn), NoGroup)

SpecBtn == InitBtn /\ [][Next]_vars

\* a touch pad that stays on the widget A, with a tick every 100 ms
HoldSteps == {100}

\* a sample of the touch pad on the widget A
Touch(st, gap) == Step(Sample(Pt(0, 0), 0, NULL, 0, st), gap)

\* a press held for 600 ms, sampled after 400, 500 and 600 ms
ScriptHold ==
    {<<Touch(LV_INDEV_STATE_PR, -1), Touch(LV_INDEV_STATE_PR, 400),
       Touch(LV_INDEV_STATE_PR, 100), Touch(LV_INDEV_STATE_PR, 100),
       Touch(LV_INDEV_STATE_REL, -1)>>}

InitHold ==
    InitWith(<<NewIndev(LV_INDEV_TYPE_POINTER, <<>>, {Pt(0, 0)})>>,
             MaxTick - 600,
             NewConf(LV_INDEV_DRAG_THROW, HoldSteps, ScriptHold), NoGroup)

\* a touch pad over the widget A and the bare screen; the presses and
\* releases that stay on A are followed
ScriptClick ==
    {sc \in [1..MaxTrace -> {Touch(st, -1) : st \in States}] : TRUE}

InitClick ==
    InitWith(<<NewIndev(LV_INDEV_TYPE_POINTER, <<>>,
                        {Pt(0, 0), Pt(0, 4)})>>, MaxTick - 500,
             NewConf(LV_INDEV_DRAG_THROW, TickSteps, ScriptClick), NoGroup)

SpecClick == InitClick /\ [][Next]_vars

SpecHold == InitHold /\ [][Next]_vars

\* a keypad whose group holds the widgets A and B; the application may have
\* left the group in edit mode
Key(k, st, gap) == Step(Sample(Pt(0, 0), 0, k, 0, st), gap)

\* enter is held for 500 ms
ScriptKey ==
    {<<Key(k1, LV_INDEV_STATE_REL, -1),
       Key(LV_GROUP_KEY_ENTER, LV_INDEV_STATE_PR, -1),
       Key(LV_GROUP_KEY_ENTER, LV_INDEV_STATE_PR, 500),
       Key(k2, LV_INDEV_STATE_REL, -1)>> : k1 \in Keys, k2 \in Keys}

InitKey ==
    \E edit \in BOOLEAN, objs \in {<<"A", "B">>, <<"B", "A">>} :
        InitWith(<<NewIndev(LV_INDEV_TYPE_KEYPAD, <<>>, {})>>,
                 MaxTick - 500,
                 NewConf(LV_INDEV_DRAG_THROW, TickSteps, ScriptKey),
                 NewGroup(objs, edit))

SpecKey == InitKey /\ [][Next]_vars

\* an encoder whose group holds the editable widget B, alone or after A
InitEnc ==
    \E objs \in {<<"B">>, <<"A", "B">>} :
        InitWith(<<NewIndev(LV_INDEV_TYPE_ENCODER, <<>>, {})>>,
                 MaxTick - 500, DefaultConf, NewGroup(objs, FALSE))

SpecEnc == InitEnc /\ [][Next]_vars

\* the values of LV_INDEV_DRAG_THROW that are looked at
Throws == {1, 50, 100}

\* a touch pad in the middle of a drag of the widget B: the finger is on B,
\* which it has dragged from y = 2 to y = 3, and the filtered vector is any
\* of those that the motion of the finger can have left; from now on the
\* driver reports the point (0,0) only
Dragging(v) ==
    [NewIndev(LV_INDEV_TYPE_POINTER, <<>>, {Pt(0, 0)}) EXCEPT
        !.state = LV_INDEV_STATE_PR,
        !.act_obj = "B", !.last_obj = "B",
        !.act_point = Pt(0, 3), !.last_point = Pt(0, 3),
        !.pr_timestamp = MaxTick - 500,
        !.drag_sum = Pt(0, LV_INDEV_DRAG_LIMIT),
        !.drag_limit_out = TRUE, !.drag_in_prog = TRUE,
        !.drag_throw_vect = Pt(0, v)]

InitThrow ==
    \E T \in Throws, v \in (-MaxVect)..MaxVect :
        /\ indev = <<Dragging(v)>>
        /\ coords = [InitCoords EXCEPT !["B"] = Pt(0, 3)]
        /\ conf = NewConf(T, TickSteps, {})
        /\ group = NoGroup
        /\ tick = MaxTick - 500
        /\ indev_act = 0
        /\ pc = "idle"
        /\ log = <<>>
        /\ data = NoData
        /\ path = "none"
        /\ hist = <<[NewHist EXCEPT !.open = "B", !.drag = TRUE]>>
        /\ trace = NoTrace

SpecThrow == InitThrow /\ [][Next]_vars

\* a keypad or an encoder with no group (lv_indev_set_group was not called)
\* or with a group that holds no widget
InitBare ==
    \E type \in {LV_INDEV_TYPE_KEYPAD, LV_INDEV_TYPE_ENCODER},
       g \in {NULL, "group"} :
        InitWith(<<[NewIndev(type, <<>>, {}) EXCEPT !.group = g]>>,
                 MaxTick - 500, DefaultConf, NoGroup)

SpecBare == InitBare /\ [][Next]_vars

\* a sample of a released device is read
ReadRelease == task_read /\ data'.state = LV_INDEV_STATE_REL

\* lv_task runs indev_proc_task again and again (lv_indev_init, line 56), and
\* the driver goes on to report releases: a release is read again and again
\* (what strong fairness of ReadRelease gives, as a release can be read in
\* every run of the task)
SpecThrowFair ==
    /\ InitThrow /\ [][Next]_vars
    /\ WF_vars(task_begin)
    /\ []<><<ReadRelease>>_vars

(***************************************************************************)
(* Properties.                                                             *)
(***************************************************************************)
\* the positions in log of the emissions of the given kinds on channel ch
Sent(ch, kinds) ==
    {k \in DOMAIN log : log[k].ch = ch /\ log[k].kind \in kinds}

Signals(kinds) == Sent("signal", kinds)

\* every "pressed" finds no press open, every "released" and "press-lost"
\* ends the open press of its widget, and the widget of the open press is
\* act_obj
PressesPaired ==
    /\ \A k \in Signals({"PRESSED"}) : log[k].open = NULL
    /\ \A k \in Signals({"RELEASED", "PRESS_LOST"}) :
         log[k].obj # NULL /\ log[k].open = log[k].obj
    /\ \A d \in DOMAIN indev : hist[d].open = indev[d].act_obj

\* C1 as stated: after "pressed" to W, exactly one of "released" and
\* "press-lost" is emitted to W before "pressed" goes to another widget and
\* before act_obj is none again, whatever the callbacks call.
C1_AsStated ==
    /\ PressesPaired
    /\ \A d \in DOMAIN indev : hist[d].lost = "none"

\* C1 amended: after "pressed" to W, exactly one of "released" and
\* "press-lost" is emitted to W before "pressed" goes to another widget and
\* before act_obj is none again, unless lv_indev_reset or
\* lv_indev_wait_release was called during the press: then the press may end
\* with no emission at all.
C1_ReleasedUnlessCalled ==
    /\ PressesPaired
    /\ \A d \in DOMAIN indev : hist[d].lost # "silent"

\* a press is lost to one widget and "pressed" goes to another one
C1_Witness ==
    \E k \in Signals({"PRESS_LOST"}), j \in Signals({"PRESSED"}) :
        k < j /\ log[k].open = log[k].obj /\ log[j].obj # log[k].obj

\* the signal that an event goes with
SignalOf(ev) ==
    CASE ev \in {"CLICKED", "RELEASED", "SIGNAL_RELEASED"} -> "RELEASED"
      [] ev \in {"PRESS_LOST", "SIGNAL_PRESS_LOST"} -> "PRESS_LOST"
      [] ev = "LONG_PRESSED" -> "LONG_PRESS"
      [] ev = "LONG_PRESSED_REPEAT" -> "LONG_PRESS_REP"
      [] OTHER -> ev

C3_AsStated ==
    \A k \in Sent("event", {"CLICKED"}) : ~log[k].lp /\ ~log[k].drag

\* C3 amended: "clicked" is emitted only if drag_in_prog never was true
\* since the last "pressed" and no long press was emitted since the last
\* "pressed" or, if later, the last call of lv_indev_reset_lpr.
C3_ClickedAfterNoLongPress ==
    \A k \in Sent("event", {"CLICKED"}) : ~log[k].lpl /\ ~log[k].drag

\* a click follows a long press that lv_indev_reset_lpr has reset
C3_Witness ==
    \E k \in Sent("event", {"CLICKED"}) : log[k].lp /\ ~log[k].lpl

\* C4 as stated: once reset_query is set while a sample is processed, no
\* further signal or event is emitted for that sample.
C4_AsStated ==
    \A k \in DOMAIN log : ~log[k].rq

\* all that indev_proc_reset_query_handler clears is clear
Wiped(p) ==
    /\ ~p.reset_query
    /\ p.act_obj = NULL /\ p.last_obj = NULL
    /\ ~p.drag_in_prog /\ ~p.drag_limit_out /\ ~p.long_pr_sent
    /\ p.pr_timestamp = 0 /\ p.longpr_rep_timestamp = 0
    /\ p.drag_sum = Pt(0, 0) /\ p.drag_throw_vect = Pt(0, 0)

\* C5 as stated: when reset_query was set by a callback before or during the
\* processing of a sample, the state is wiped at the next HAL read.
C5_AsStated ==
    (/\ pc = "read"
     /\ \/ data.call = "reset"
        \/ \E k \in DOMAIN log : log[k].call = "reset")
    => Wiped(indev[indev_act])

\* C5 amended: when reset_query was set by lv_indev_reset before the task
\* runs, or by a callback of a widget during the processing of a sample,
\* the state is wiped when the device is read next.  (A reset that the read
\* callback of the driver raises is honoured before its own sample is
\* processed, so that sample's press is there at the next read.)
C5_WipedAtNextRead ==
    [][(\/ pc = "idle" /\ pc' = "read" /\ indev[indev_act'].reset_query
        \/ \E k \in DOMAIN log' : log'[k].call = "reset")
       => Wiped(indev'[indev_act'])]_vars

\* a widget's callback has called lv_indev_reset and the device is about to
\* be read again
C5_Witness ==
    /\ pc = "read"
    /\ \E k \in DOMAIN log : log[k].call = "reset" /\ log[k].open # NULL
    /\ Wiped(indev[indev_act])

\* C6 as stated: drag_in_prog is true only after a "drag-begin" was emitted
\* for the drag in progress.
C6_AsStated ==
    \A d \in DOMAIN indev : indev[d].drag_in_prog => hist[d].dbeg

C8_ButtonPath ==
    (path # "none" /\ indev[indev_act].type = LV_INDEV_TYPE_BUTTON) =>
        /\ path \in {"press", "release"}
        /\ path = "press" <=> (data.state = LV_INDEV_STATE_PR /\ data.same)

\* a PR sample on a changed point took the release path
C8_Witness ==
    /\ path = "release" /\ data.state = LV_INDEV_STATE_PR /\ ~data.same
    /\ indev[indev_act].type = LV_INDEV_TYPE_BUTTON

\* the samples that trace has followed, and what they emitted
Followed == [k \in DOMAIN trace.seq |->
               <<trace.seq[k].btn_id, trace.seq[k].state>>]

Outcome == [k \in DOMAIN trace.seq |-> trace.seq[k].out]

PR == LV_INDEV_STATE_PR

REL == LV_INDEV_STATE_REL

Both(sig, ev, w) == <<<<"signal", sig, w>>, <<"event", ev, w>>>>

\* C9 as stated: (btn=0,PR),(btn=1,PR),(btn=1,REL) gives "pressed" to the
\* widget of button 0, then the release path, "pressed" to the widget of
\* button 1, then "released" and "clicked" to it.
C9_AsStated ==
    (trace.ok /\ Followed = <<<<0, PR>>, <<1, PR>>, <<1, REL>>>>) =>
        /\ \E k \in DOMAIN Outcome[1] :
              Outcome[1][k] = <<"signal", "PRESSED", "B">>
        /\ \E k \in DOMAIN Outcome[2] :
              Outcome[2][k] = <<"signal", "PRESSED", "A">>
        /\ Outcome[3] = Both("RELEASED", "CLICKED", "A")

\* C9 amended: a button is pressed by the second PR sample of its point.
\* (btn=0,PR),(btn=1,PR),(btn=1,REL) emits nothing, and
\* (btn=0,PR),(btn=0,PR),(btn=1,PR),(btn=1,PR),(btn=1,REL) gives "pressed"
\* and "pressing" to the widget of button 0, "released" and "clicked" to it
\* on the changed point, "pressed" and "pressing" to the widget of button 1,
\* then "released" and "clicked" to it.
C9_ScenarioS6 ==
    /\ (trace.ok /\ Followed = <<<<0, PR>>, <<1, PR>>, <<1, REL>>>>) =>
          Outcome = <<<<>>, <<>>, <<>>>>
    /\ (trace.ok /\ Followed = <<<<0, PR>>, <<0, PR>>, <<1, PR>>, <<1, PR>>,
                                <<1, REL>>>>) =>
          Outcome = << <<>>,
                       Both("PRESSED", "PRESSED", "B")
                         \o Both("PRESSING", "PRESSING", "B"),
                       Both("RELEASED", "CLICKED", "B"),
                       Both("PRESSED", "PRESSED", "A")
                         \o Both("PRESSING", "PRESSING", "A"),
                       Both("RELEASED", "CLICKED", "A") >>

\* the five samples have been read
C9_Witness ==
    /\ trace.ok
    /\ Followed = <<<<0, PR>>, <<0, PR>>, <<1, PR>>, <<1, PR>>, <<1, REL>>>>

\* C10: lv_indev_reset twice leaves the devices as lv_indev_reset once does,
\* the task finds them in the same state either way, and honouring a reset
\* on a device whose reset was honoured changes nothing.
C10_ResetIdempotent ==
    \A who \in 0..Len(indev) :
        LET once  == lv_indev_reset(indev, who)
            twice == lv_indev_reset(once, who)
        IN  /\ twice = once
            /\ TaskLoop(twice, 1) = TaskLoop(once, 1)
            /\ \A k \in DOMAIN indev :
                 LET h == indev_proc_reset_query_handler(once[k])
                 IN  /\ indev_proc_reset_query_handler(h) = h
                     /\ indev_proc_reset_query_handler(lv_indev_reset_one(h))
                          = indev_proc_reset_query_handler(
                              lv_indev_reset_one(lv_indev_reset_one(h)))
                     /\ who \in {0, k} =>
                          indev_proc_reset_query_handler(lv_indev_reset_one(h)) = h

\* lv_indev_reset was called while a widget is pressed
C10_Witness ==
    /\ pc = "idle"
    /\ \E d \in DOMAIN indev : indev[d].reset_query /\ indev[d].act_obj # NULL

StateAt(k) == trace.seq[k].state

\* sample k is the first one of the followed samples or comes after a REL
AfterRel(k) == k = 1 \/ StateAt(k - 1) = REL

\* the first sample of the press that the PR sample k belongs to
PressFrom(k) ==
    CHOOSE j \in 1..k : AfterRel(j) /\ \A i \in j..k : StateAt(i) = PR

\* none of the samples j..k has emitted a long press or a repeat of it
NoLong(j, k) ==
    \A i \in j..k : \A e \in DOMAIN Outcome[i] :
        Outcome[i][e][2] \notin {"LONG_PRESS", "LONG_PRESS_REP"}

\* C11: a touch pad that stays on the clickable widget A, with no long press
\* emitted (as when no press is held longer than LV_INDEV_LONG_PRESS_TIME):
\* the first PR sample of a press emits "pressed" and "pressing", every
\* further PR sample "pressing", the REL sample after it "released" and
\* "clicked", and a REL sample with nothing pressed emits nothing; the
\* release of a press with no long press clicks whatever the presses before
\* it were, so two presses with a release between them click twice.
C11_ClickCycle ==
    trace.ok =>
      \A k \in DOMAIN trace.seq :
        /\ (StateAt(k) = REL /\ AfterRel(k)) => Outcome[k] = <<>>
        /\ (StateAt(k) = PR /\ AfterRel(k)) =>
              Outcome[k] = Both("PRESSED", "PRESSED", "A")
                             \o Both("PRESSING", "PRESSING", "A")
        /\ (StateAt(k) = PR /\ ~AfterRel(k) /\ NoLong(PressFrom(k), k)) =>
              Outcome[k] = Both("PRESSING", "PRESSING", "A")
        /\ (StateAt(k) = REL /\ ~AfterRel(k)
              /\ NoLong(PressFrom(k - 1), k - 1)) =>
              Outcome[k] = Both("RELEASED", "CLICKED", "A")

\* a press with a long press, released, then a press with none that clicks
C11_Witness ==
    /\ trace.ok
    /\ [k \in DOMAIN trace.seq |-> StateAt(k)] = <<PR, PR, REL, PR, REL>>
    /\ ~NoLong(2, 2)
    /\ Outcome[5] = Both("RELEASED", "CLICKED", "A")

\* C12 as stated: no "drag-begin" while the motion is below the limit, and
\* on the sample that moves the drag target for the first time, so that
\* drag_in_prog becomes true, "drag-begin" is emitted to the drag target.
C12_AsStated ==
    [][\A d \in DOMAIN indev :
          /\ (\E k \in DOMAIN log' : log'[k].kind = "DRAG_BEGIN") =>
                indev'[d].drag_limit_out
          /\ (~indev[d].drag_in_prog /\ indev'[d].drag_in_prog) =>
                \E k \in DOMAIN log' :
                    /\ log'[k].ch = "signal" /\ log'[k].kind = "DRAG_BEGIN"
                    /\ log'[k].obj = DragTarget(indev'[d].act_obj)]_vars

\* no callback and no read callback has called lv_indev_reset
NoReset(dt, lg) ==
    dt.call # "reset" /\ \A k \in DOMAIN lg : lg[k].call # "reset"

DragEnds(lg) ==
    {k \in DOMAIN lg : lg[k].ch = "signal" /\ lg[k].kind = "DRAG_END"}

\* C13: with LV_INDEV_DRAG_THROW = 100 the REL sample that releases a
\* dragged widget with drag throw clears drag_in_prog and emits "drag-end"
\* once, and the widget is not moved, whatever drag_throw_vect is.
C13_ThrowOneStep ==
    [][(/\ conf.drag_throw = 100
        /\ pc = "read" /\ path' = "release"
        /\ indev[indev_act].drag_in_prog
        /\ indev[indev_act].act_obj # NULL
        /\ lv_obj_get_drag_throw(DragTarget(indev[indev_act].last_obj))
        /\ ~indev[indev_act].wait_unil_release
        /\ NoReset(data', log'))
       => /\ ~indev'[indev_act].drag_in_prog
          /\ coords' = coords
          /\ Cardinality(DragEnds(log')) = 1]_vars

\* the throw of a full vector has ended at the release
C13_Witness ==
    /\ conf.drag_throw = 100 /\ path = "release"
    /\ DragEnds(log) # {}
    /\ \E k \in Signals({"RELEASED"}) : log[k].obj = "B"
    /\ ~indev[indev_act].drag_in_prog

\* the widget was released while it was dragged
Thrown(p) == p.drag_in_prog /\ p.act_obj = NULL

\* a "drag-end" is emitted when and only when a release sample ends the drag
\* in progress, and once only
DragEndsOnce ==
    /\ Cardinality(DragEnds(log')) <= 1
    /\ DragEnds(log') # {} =>
         indev[indev_act'].drag_in_prog /\ ~indev'[indev_act'].drag_in_prog
    /\ (/\ pc = "read" /\ path' = "release"
        /\ indev[indev_act].drag_in_prog /\ ~indev'[indev_act].drag_in_prog
        /\ NoReset(data', log')) => DragEnds(log') # {}

\* a release sample with no press and no drag in progress does nothing
ThrowOver ==
    (/\ pc = "read" /\ path' = "release"
     /\ ~indev[indev_act].drag_in_prog /\ indev[indev_act].act_obj = NULL)
    => coords' = coords /\ log' = <<>>

\* C14 as stated: after a release with drag_in_prog = true, as the release
\* samples go on, drag_in_prog becomes false unless a widget is pressed (a
\* reset makes it false as well).
C14_AsStated ==
    Thrown(indev[1]) ~> (~indev[1].drag_in_prog \/ indev[1].act_obj # NULL)

\* C14 amended: for every LV_INDEV_DRAG_THROW and drag_throw_vect, after a
\* release with drag_in_prog = true that leaves last_obj, as the release
\* samples go on, drag_in_prog becomes false unless a widget is pressed or
\* lv_indev_wait_release is called (a release in wait-until-release forgets
\* last_obj and leaves drag_in_prog as it is); "drag-end" is emitted once,
\* when the drag in progress ends, and after that release samples move
\* nothing and emit nothing.
C14_ThrowConverges ==
    /\ (/\ Thrown(indev[1]) /\ indev[1].last_obj # NULL
        /\ ~indev[1].wait_unil_release)
         ~> (\/ ~indev[1].drag_in_prog \/ indev[1].act_obj # NULL
             \/ indev[1].wait_unil_release)
    /\ [][DragEndsOnce /\ ThrowOver]_vars

\* the throw has moved the widget and goes on
C14_Witness ==
    /\ path = "release" /\ Thrown(indev[1]) /\ indev[1].last_obj = "B"
    /\ coords["B"] # Pt(0, 3)
    /\ indev[1].drag_throw_vect # Pt(0, 0)

Has(k, ch, kind) ==
    \E e \in DOMAIN Outcome[k] :
        Outcome[k][e][1] = ch /\ Outcome[k][e][2] = kind

\* the press held for 600 ms has been read and released
HoldRead == trace.ok /\ Len(trace.seq) = 5

\* C16 as stated: "long-press" at the sample 400 ms after the press,
\* "long-press-repeat" at the samples 500 and 600 ms after it, and the
\* release emits "released" and no "clicked".
C16_AsStated ==
    HoldRead =>
        /\ Has(2, "signal", "LONG_PRESS")
        /\ Has(3, "signal", "LONG_PRESS_REP")
        /\ Has(4, "signal", "LONG_PRESS_REP")
        /\ Has(5, "signal", "RELEASED") /\ ~Has(5, "event", "CLICKED")

\* C16 amended: a time has to be exceeded.  The sample 400 ms after the
\* press emits "pressing" only, the sample at 500 ms "long-press", the
\* sample at 600 ms, 100 ms after the long press, "pressing" only, and the
\* release emits "released" and no "clicked".
C16_ScenarioS3 ==
    HoldRead =>
        Outcome = << Both("PRESSED", "PRESSED", "A")
                       \o Both("PRESSING", "PRESSING", "A"),
                     Both("PRESSING", "PRESSING", "A"),
                     Both("PRESSING", "PRESSING", "A")
                       \o Both("LONG_PRESS", "LONG_PRESSED", "A"),
                     Both("PRESSING", "PRESSING", "A"),
                     Both("RELEASED", "RELEASED", "A") >>

\* the five samples of the held press have been read
C16_Witness ==
    /\ HoldRead
    /\ trace.seq[5].state = REL
    /\ trace.seq[4].t - trace.seq[1].t = 600

\* REL, PR(ENTER), PR(ENTER) after 500 ms and REL have been read
KeyRead == trace.ok /\ Len(trace.seq) = 4

\* C17 as stated: REL, PR(ENTER), PR(ENTER) 500 ms later, REL emit
\* "pressed", "long-press" and "released" to the focused widget, and no
\* "clicked".
C17_AsStated ==
    KeyRead =>
        /\ Outcome[1] = <<>>
        /\ Outcome[2] = Both("PRESSED", "PRESSED", lv_group_get_focused(group))
        /\ Outcome[3] = Both("LONG_PRESS", "LONG_PRESSED",
                             lv_group_get_focused(group))
        /\ Has(4, "signal", "RELEASED") /\ ~Has(4, "event", "CLICKED")

\* C17 amended: REL, PR(ENTER), PR(ENTER) 500 ms later, REL emit "pressed"
\* and "long-press" to the focused widget; the release after a long press
\* emits nothing, neither "released" nor "clicked".
C17_ScenarioS4 ==
    KeyRead =>
        Outcome = << <<>>,
                     Both("PRESSED", "PRESSED", lv_group_get_focused(group)),
                     Both("LONG_PRESS", "LONG_PRESSED",
                          lv_group_get_focused(group)),
                     <<>> >>

\* the four samples have been read, the long press 500 ms after the press
C17_Witness ==
    /\ KeyRead
    /\ trace.seq[3].t - trace.seq[2].t = 500
    /\ trace.seq[4].state = REL

\* the number of emissions of `kind` on channel ch in lg
Count(lg, ch, kind) ==
    Cardinality({k \in DOMAIN lg : lg[k].ch = ch /\ lg[k].kind = kind})

\* the steps that a sample of an encoder has to make: up and down
StepsUp(dt) ==
    IF dt.state = LV_INDEV_STATE_REL /\ dt.enc_diff > 0 THEN dt.enc_diff ELSE 0

StepsDown(dt) ==
    IF dt.state = LV_INDEV_STATE_REL /\ dt.enc_diff < 0 THEN -dt.enc_diff ELSE 0

\* C18: a released sample of an encoder with enc_diff = n makes |n| steps:
\* in navigate mode focus-next n times or focus-prev |n| times, in edit mode
\* RIGHT n times or LEFT |n| times sent to the group; a pressed sample makes
\* no step.
C18_EncoderSteps ==
    [][(pc = "read" /\ path' = "encoder") =>
          IF group.editing
          THEN /\ Count(log', "data", LV_GROUP_KEY_RIGHT) = StepsUp(data')
               /\ Count(log', "data", LV_GROUP_KEY_LEFT) = StepsDown(data')
               /\ Count(log', "focus", "next") = 0
               /\ Count(log', "focus", "prev") = 0
          ELSE /\ Count(log', "focus", "next") = StepsUp(data')
               /\ Count(log', "focus", "prev") = StepsDown(data')
               /\ Count(log', "data", LV_GROUP_KEY_RIGHT) = 0
               /\ Count(log', "data", LV_GROUP_KEY_LEFT) = 0]_vars

\* in edit mode the encoder was turned down by MaxDiff
C18_Witness ==
    /\ path = "encoder" /\ data.enc_diff = -MaxDiff
    /\ data.state = LV_INDEV_STATE_REL
    /\ Count(log, "data", LV_GROUP_KEY_LEFT) = MaxDiff

\* C19: drag_in_prog implies drag_limit_out, in every state.
C19_DragPastLimit ==
    \A d \in DOMAIN indev : indev[d].drag_in_prog => indev[d].drag_limit_out

\* a drag is in progress
C19_Witness ==
    \E d \in DOMAIN indev : indev[d].drag_in_prog /\ indev[d].act_obj = "B"

\* C20 as stated: long_pr_sent implies that pr_timestamp was not cleared
\* since the press of the long press.  (The tick counter starts above 0, so
\* that a pr_timestamp of 0 is one that was cleared.)
C20_AsStated ==
    \A d \in DOMAIN indev : indev[d].long_pr_sent => indev[d].pr_timestamp # 0

\* no callback and no read callback has called a public operation
NoCall(dt, lg) ==
    dt.call = "none" /\ \A k \in DOMAIN lg : lg[k].call = "none"

C26_KeepActObj ==
    [][(/\ pc = "read" /\ path' = "press"
        /\ indev[indev_act].act_obj # NULL
        /\ ~indev[indev_act].wait_unil_release
        /\ NoReset(data', log'))
       => /\ (\/ indev[indev_act].drag_in_prog
              \/ lv_obj_is_protected(indev[indev_act].act_obj))
             => /\ indev'[indev_act].act_obj = indev[indev_act].act_obj
                /\ \A k \in DOMAIN log' :
                     log'[k].kind \notin {"PRESS_LOST", "PRESSED"}
          /\ indev'[indev_act].act_obj # indev[indev_act].act_obj
             => /\ ~indev[indev_act].drag_in_prog
                /\ ~lv_obj_is_protected(indev[indev_act].act_obj)]_vars

\* the protected widget A is still pressed with the point on B, and B is
\* dragged with the point off it
C26_Witness ==
    /\ path = "press"
    /\ \/ /\ indev[indev_act].act_obj = "A"
          /\ indev[indev_act].act_point = Pt(0, 4)
       \/ /\ indev[indev_act].act_obj = "B" /\ indev[indev_act].drag_in_prog
          /\ ~lv_area_is_point_on(coords, "B", indev[indev_act].act_point)

\* C30: act_obj # NULL implies last_obj = act_obj, in every state: the two
\* are assigned together and last_obj is cleared only with act_obj, also
\* when the press slides off onto no widget.
C30_LastIsAct ==
    \A d \in DOMAIN indev :
        indev[d].act_obj # NULL => indev[d].last_obj = indev[d].act_obj

\* the press has slid off a widget onto none: both are cleared
C30_Witness ==
    /\ path = "press"
    /\ \E k \in Signals({"PRESS_LOST"}) : TRUE
    /\ indev[indev_act].act_obj = NULL /\ indev[indev_act].last_obj = NULL

\* the cumulative motion is at the drag limit on an axis
AtLimit(p) ==
    \/ Abs(p.drag_sum.x) >= LV_INDEV_DRAG_LIMIT
    \/ Abs(p.drag_sum.y) >= LV_INDEV_DRAG_LIMIT

C27_AsStated ==
    [][(pc = "read" /\ path' \in {"keypad", "encoder"})
       => indev'[indev_act].last_state = data'.state]_vars

One(b) == IF b THEN 1 ELSE 0

\* C28: on the PR to REL transition of a keypad the action is chosen by
\* last_key, the key of the sample before, whatever the key of the release
\* sample is: NEXT and PREV move the focus, ENTER is released and clicked
\* unless its long press was sent, any other key is sent to the group; and
\* last_key is left as it is by the release sample.
C28_ReleaseLastKey ==
    [][(/\ pc = "read" /\ path' = "keypad"
        /\ data'.state = LV_INDEV_STATE_REL /\ data'.call = "none"
        /\ indev[indev_act].last_state = LV_INDEV_STATE_PR)
       => /\ indev'[indev_act].last_key = indev[indev_act].last_key
          /\ Count(log', "focus", "next")
               = One(indev[indev_act].last_key = LV_GROUP_KEY_NEXT)
          /\ Count(log', "focus", "prev")
               = One(indev[indev_act].last_key = LV_GROUP_KEY_PREV)
          /\ Count(log', "signal", "RELEASED")
               = One(/\ indev[indev_act].last_key = LV_GROUP_KEY_ENTER
                     /\ ~indev[indev_act].long_pr_sent)
          /\ Count(log', "event", "CLICKED")
               = One(/\ indev[indev_act].last_key = LV_GROUP_KEY_ENTER
                     /\ ~indev[indev_act].long_pr_sent)
          /\ \A k \in Keys :
               Count(log', "data", k)
                 = One(/\ indev[indev_act].last_key = k
                       /\ k \notin {LV_GROUP_KEY_NEXT, LV_GROUP_KEY_PREV,
                                    LV_GROUP_KEY_ENTER})]_vars

\* NEXT was released by a sample that carries another key
C28_Witness ==
    /\ path = "keypad" /\ data.state = LV_INDEV_STATE_REL
    /\ data.key = LV_GROUP_KEY_ENTER
    /\ indev[indev_act].last_key = LV_GROUP_KEY_NEXT
    /\ Count(log, "focus", "next") = 1

\* a sample of the encoder is processed with its button in state st after
\* the state last, no callback calls a public operation, and the group has
\* two widgets at least
EncoderButton(last, st) ==
    /\ pc = "read" /\ path' = "encoder"
    /\ indev[indev_act].last_state = last /\ data'.state = st
    /\ ~OneObj(group)
    /\ NoCall(data', log')

C23_NoGroupNoOp ==
    [][(/\ pc = "read" /\ pc' = "read" /\ tick' = tick
        /\ indev[indev_act].group = NULL)
       => /\ log' = <<>> /\ group' = group /\ path' = "none"
          /\ data'.call = "none" =>
               /\ indev'[indev_act].last_state = indev[indev_act].last_state
               /\ indev'[indev_act].last_key = indev[indev_act].last_key
               /\ indev'[indev_act].pr_timestamp
                    = indev[indev_act].pr_timestamp
               /\ indev'[indev_act].long_pr_sent
                    = indev[indev_act].long_pr_sent]_vars

\* a press of ENTER was read from a keypad with no group, after
\* lv_indev_reset_lpr has set pr_timestamp
C23_Witness ==
    /\ pc = "read" /\ indev[indev_act].group = NULL
    /\ indev[indev_act].type = LV_INDEV_TYPE_KEYPAD
    /\ data.state = LV_INDEV_STATE_PR /\ data.key = LV_GROUP_KEY_ENTER
    /\ indev[indev_act].state = LV_INDEV_STATE_PR
    /\ indev[indev_act].last_state = LV_INDEV_STATE_REL
    /\ indev[indev_act].pr_timestamp # 0

\* C24 as stated: a keypad whose group has no focused widget takes every
\* sample sequence, the press and the release of ENTER too, with no signal
\* and no event, no call through a NULL widget and no failure.
C24_AsStated ==
    (\A d \in DOMAIN indev :
        /\ indev[d].type = LV_INDEV_TYPE_KEYPAD /\ indev[d].group # NULL
        /\ lv_group_get_focused(group) = NULL)
    => /\ path # "fault"
       /\ \A k \in DOMAIN log : log[k].ch \notin {"signal", "event"}

====
